---- MODULE Spec2Model ----
(***************************************************************************)
(* aiida-optimade: the `mongofy` export command (cli/cmd_mongofy.py) and   *)
(* the StructureDataParser attribute derivations (parsers/structures.py).  *)
(*                                                                         *)
(* Four specifications share the variables of this module:                 *)
(*   SpecExport  one run of `aiida-optimade mongofy`                       *)
(*   SpecParser  one StructureDataParser and the calls made on it          *)
(*   SpecLabel   the anonymous-label computation, index by index           *)
(*   SpecRound   check_floating_round_errors on a list of lists            *)
(* Each leaves the variables of the other three at their idle values.      *)
(***************************************************************************)
EXTENDS Integers, Sequences, FiniteSets, TLC

VARIABLES
    \* ---- mongofy / create_mongodb ----
    pc,          \* position of the command
    piping,      \* FILENAME was "-"
    force,       \* --force
    batch_size,  \* --batch-size
    as_is,       \* --as-is
    file,        \* the output path: [exists, content]; content is a token list
    stdout,      \* what was written to sys.stdout (token list)
    ncursor,     \* how many rows the QueryBuilder iterator will yield
    yielded,     \* the rows pulled so far, in cursor order: [pk, raises]
    data,        \* the batch buffer of create_mongodb
    exc,         \* the exception in flight ("none" when there is none)
    report,      \* what the command told the user last
    exit_code,   \* process exit status (-1 while running)
    \* ---- StructureDataParser ----
    node,            \* the StructureData node in the database: [uuid, cell, kinds, sites]
    found,           \* how many nodes the query for the parser's uuid finds
    extras,          \* the node's extras in the database: [set, optimade]
    loaded,          \* whether the parser holds the node (self.__node is set)
    new_attributes,  \* the parser's cache: attribute name -> value
    called,          \* the derivation method called last
    ret,             \* what that call returned, or the exception it raised
    \* ---- anonymous label computation ----
    label_i,     \* loop index i of chemical_formula_anonymous
    label_sym,   \* the symbol computed for it
    \* ---- check_floating_round_errors ----
    round_pc,    \* "idle", "call" (about to be called) or "returned"
    round_arg,   \* its argument some_list: a list of lists of floats
    round_res    \* the list it returned

exportVars == <<pc, piping, force, batch_size, as_is, file, stdout, ncursor, yielded,
                data, exc, report, exit_code>>
parserVars == <<node, found, extras, loaded, new_attributes, called, ret>>
labelVars == <<label_i, label_sym>>
roundVars == <<round_pc, round_arg, round_res>>
vars == <<exportVars, parserVars, labelVars, roundVars>>

(***************************************************************************)
(* Bounds of the model.                                                    *)
(***************************************************************************)
MaxBatch == 2
MaxRecords == 4
MaxKinds == 2
MaxSites == 2
MaxRows == 2
MaxCols == 2
RecursionLimit == 3

(***************************************************************************)
(* Generic helpers.                                                        *)
(***************************************************************************)
Range(s) == {s[i] : i \in DOMAIN s}

RECURSIVE SelectTokens(_, _)
SelectTokens(s, t) ==
    IF s = <<>> THEN <<>>
    ELSE (IF Head(s).t = t THEN <<Head(s)>> ELSE <<>>) \o SelectTokens(Tail(s), t)

(***************************************************************************)
(* cmd_mongofy.py                                                          *)
(***************************************************************************)
ITEM_SEPARATOR == ","

\* A piece of output text: punctuation, or one serialized document.
Tok(s) == [t |-> s, id |-> "", immutable_id |-> "", species |-> <<>>]
DocTok(d) == [t |-> "doc", id |-> d.id, immutable_id |-> d.immutable_id,
              species |-> d.species]

\* Every node of the database has its own uuid.
UuidOf(pk) == "uuid-" \o ToString(pk)

\* The "mass" of a species: a float, a list of floats, or None.
MassFloat(m) == [type |-> "float", v |-> <<m>>]
MassList(ms) == [type |-> "list", v |-> ms]
MassNone == [type |-> "None", v |-> <<>>]

Species(symbols, mass) == [chemical_symbols |-> symbols, mass |-> mass]

\* The "species" lists found in the "optimade" extras of the database's nodes.
SpeciesInDatabase ==
    << <<Species(<<"Fe">>, MassFloat(56)),
         Species(<<"Fe", "vacancy">>, MassFloat(56))>>,
       <<Species(<<"vacancy", "Fe">>, MassFloat(56)),
         Species(<<"Na", "Cl">>, MassFloat(29)),
         Species(<<>>, MassFloat(1))>>,
       <<Species(<<"Fe">>, MassList(<<56>>)),
         Species(<<"Fe", "vacancy">>, MassNone),
         Species(<<"Na", "Cl", "vacancy">>, MassFloat(29))>>,
       <<>> >>

\* structure.get_extra("optimade")["species"] of the node with this pk
StoredSpecies(pk) == SpeciesInDatabase[((pk - 1) % Len(SpeciesInDatabase)) + 1]

\* list.index(x), 0-based, for x in the list
IndexOf(seq, x) == (CHOOSE i \in DOMAIN seq : seq[i] = x /\ \A j \in 1 .. i - 1 : seq[j] # x) - 1

\* list.insert(index, x) for 0 <= index <= len(list)
Insert(seq, index, x) == SubSeq(seq, 1, index) \o <<x>> \o SubSeq(seq, index + 1, Len(seq))

\* The mass correction that puts the 0.0 of the vacancy last, wherever it is.
NormalizeMassVacancyLast(sp) ==
    IF sp.mass.type # "float" THEN sp
    ELSE IF Len(sp.chemical_symbols) = 2 /\ "vacancy" \in Range(sp.chemical_symbols)
    THEN [sp EXCEPT !.mass = MassList(Append(sp.mass.v, 0))]
    ELSE IF Len(sp.chemical_symbols) = 1
    THEN [sp EXCEPT !.mass = MassList(sp.mass.v)]
    ELSE [sp EXCEPT !.mass = MassNone]

\* "Check species.mass", for one species of new_doc["species"]
NormalizeMass(sp) ==
    IF sp.mass.type = "list" \/ sp.mass.type = "None" THEN sp
    ELSE IF Len(sp.chemical_symbols) = 2 /\ "vacancy" \in Range(sp.chemical_symbols)
    THEN [sp EXCEPT !.mass =
            MassList(Insert(sp.mass.v, IndexOf(sp.chemical_symbols, "vacancy"), 0))]
    ELSE IF Len(sp.chemical_symbols) = 1
    THEN [sp EXCEPT !.mass = MassList(sp.mass.v)]
    ELSE [sp EXCEPT !.mass = MassNone]

\* new_doc, from structure.get_extra("optimade") to data.append(new_doc)
NewDoc(pk) ==
    [id |-> ToString(pk),
     immutable_id |-> UuidOf(pk),
     species |-> IF as_is THEN StoredSpecies(pk)
                 ELSE [i \in DOMAIN StoredSpecies(pk) |-> NormalizeMass(StoredSpecies(pk)[i])]]

\* bson.json_util.dumps(data, separators=(ITEM_SEPARATOR, KEY_SEPARATOR))
RECURSIVE DumpsItems(_)
DumpsItems(docs) ==
    IF docs = <<>> THEN <<>>
    ELSE IF Len(docs) = 1 THEN <<DocTok(docs[1])>>
    ELSE <<DocTok(docs[1]), Tok(ITEM_SEPARATOR)>> \o DumpsItems(Tail(docs))

Dumps(docs) == <<Tok("[")>> \o DumpsItems(docs) \o <<Tok("]")>>

\* dumps(...)[1:-1]
FragmentDropFirst(docs) == SubSeq(Dumps(docs), 3, Len(Dumps(docs)) - 1)

Fragment(docs) == SubSeq(Dumps(docs), 2, Len(Dumps(docs)) - 1)

\* write_data on a Path: open(output, mode) then handle.write(data).
\* Mode "x" raises FileExistsError on an existing file; "a" appends; "w" truncates.
OpenFails(f, mode) == mode = "x" /\ f.exists

OpenWrite(f, text, mode) ==
    IF mode = "a" /\ f.exists
    THEN [exists |-> TRUE, content |-> f.content \o text]
    ELSE [exists |-> TRUE, content |-> text]

\* The sink this run writes to.
Sink == IF piping THEN stdout ELSE file.content

(***************************************************************************)
(* Idle values of the variables a specification does not use.              *)
(***************************************************************************)
NoNode == [uuid |-> "", cell |-> <<>>, kinds |-> <<>>, sites |-> <<>>]
NoReturn == [kind |-> "none", val |-> <<>>, err |-> ""]
\* A node without the "optimade" extra: extras.get(EXTRAS_KEY, None) is None.
NoExtras == [set |-> FALSE, optimade |-> <<>>]

ExportIdle ==
    /\ pc = "idle" /\ piping = FALSE /\ force = FALSE /\ batch_size = 1
    /\ as_is = FALSE
    /\ file = [exists |-> FALSE, content |-> <<>>] /\ stdout = <<>>
    /\ ncursor = 0 /\ yielded = <<>> /\ data = <<>>
    /\ exc = "none" /\ report = "none" /\ exit_code = -1

ParserIdle ==
    /\ node = NoNode /\ found = 0 /\ extras = NoExtras /\ loaded = FALSE
    /\ new_attributes = <<>>
    /\ called = "none" /\ ret = NoReturn

LabelIdle == label_i = -1 /\ label_sym = ""

RoundIdle == round_pc = "idle" /\ round_arg = <<>> /\ round_res = <<>>

(***************************************************************************)
(* mongofy: one run of the command.                                        *)
(***************************************************************************)
PKs == 1 .. MaxRecords

OldContent == <<Tok("old")>>

InitExport ==
    /\ pc = "start"
    /\ piping \in BOOLEAN
    /\ force \in BOOLEAN
    /\ batch_size \in 1 .. MaxBatch
    /\ as_is \in BOOLEAN
    /\ file \in {[exists |-> FALSE, content |-> <<>>],
                 [exists |-> TRUE, content |-> OldContent]}
    /\ stdout = <<>>
    /\ ncursor \in 0 .. MaxRecords
    /\ yielded = <<>>
    /\ data = <<>>
    /\ exc = "none"
    /\ report = "none"
    /\ exit_code = -1
    /\ ParserIdle
    /\ LabelIdle
    /\ RoundIdle

\* write_data(output, text, mode), once open() has not failed.
WriteData(text, mode) ==
    IF piping
    THEN stdout' = stdout \o text /\ UNCHANGED file
    ELSE file' = OpenWrite(file, text, mode) /\ UNCHANGED stdout

\* filename.unlink()
Unlink(f) == [exists |-> FALSE, content |-> <<>>]

\* `filename.exists()` and not `force`: the branch that refuses to overwrite.
RefusesInverted(f, frc) == f.exists /\ frc

Refuses(f, frc) == f.exists /\ ~frc

\* mongofy, from its entry to the `try` (existing-file handling).
Preflight ==
    /\ pc = "start"
    /\ UNCHANGED <<piping, force, batch_size, stdout, ncursor, yielded, data, exc>>
    /\ IF piping \/ ~file.exists
       THEN /\ pc' = "create"
            /\ UNCHANGED <<file, report, exit_code>>
       ELSE IF Refuses(file, force)
       THEN \* echo_critical: "... already exists!"
            /\ pc' = "done"
            /\ report' = "conflict"
            /\ exit_code' = 1
            /\ UNCHANGED file
       ELSE \* echo_warning: "Removing existing file at ..."
            /\ file' = Unlink(file)
            /\ IF file'.exists
               THEN \* echo_critical: "Unlinked (removed) file ... still registers"
                    /\ pc' = "done"
                    /\ report' = "unlink_failed"
                    /\ exit_code' = 1
               ELSE /\ pc' = "create"
                    /\ report' = "removing"
                    /\ UNCHANGED exit_code
    /\ UNCHANGED <<as_is, parserVars, labelVars, roundVars>>

\* create_mongodb: write_data(output, "[", mode="x"), before the `try`.
OpenSink ==
    /\ pc = "create"
    /\ UNCHANGED <<piping, force, batch_size, ncursor, yielded, report, exit_code>>
    /\ IF ~piping /\ OpenFails(file, "x")
       THEN \* FileExistsError, raised outside the try/finally
            /\ exc' = "Exception"
            /\ pc' = "handler"
            /\ UNCHANGED <<file, stdout, data>>
       ELSE /\ WriteData(<<Tok("[")>>, "x")
            /\ data' = <<>>
            /\ pc' = "loop"
            /\ UNCHANGED exc
    /\ UNCHANGED <<as_is, parserVars, labelVars, roundVars>>

\* One turn of `for (structure,) in structures`, up to data.append(new_doc).
\* Building new_doc can raise (no "optimade" extra, hex_to_floats failing, ...).
PullRecord ==
    /\ pc = "loop"
    /\ Len(yielded) < ncursor
    /\ \E pk \in PKs \ {r.pk : r \in Range(yielded)}, raises \in BOOLEAN :
         /\ yielded' = Append(yielded, [pk |-> pk, raises |-> raises])
         /\ IF ~raises
            THEN /\ data' = Append(data, NewDoc(pk))
                 /\ pc' = "appended"
                 /\ UNCHANGED exc
            ELSE /\ exc' = "Exception"
                 /\ pc' = "finally"
                 /\ UNCHANGED data
    /\ UNCHANGED <<piping, force, batch_size, file, stdout, ncursor, report, exit_code>>
    /\ UNCHANGED <<as_is, parserVars, labelVars, roundVars>>

\* The batch is full exactly when len(data) == batch_size.
BatchFullNever(d, n) == FALSE

BatchFull(d, n) == Len(d) = n

\* `if len(data) == batch_size:` "Flush"
FlushCheck ==
    /\ pc = "appended"
    /\ IF BatchFull(data, batch_size)
       THEN /\ WriteData(Fragment(data) \o <<Tok(ITEM_SEPARATOR)>>, "a")
            /\ data' = <<>>
       ELSE UNCHANGED <<file, stdout, data>>
    /\ pc' = "loop"
    /\ UNCHANGED <<piping, force, batch_size, ncursor, yielded, exc, report, exit_code>>
    /\ UNCHANGED <<as_is, parserVars, labelVars, roundVars>>

\* The iterator is exhausted: the for loop ends.
LoopEnd ==
    /\ pc = "loop"
    /\ Len(yielded) = ncursor
    /\ pc' = "tail"
    /\ UNCHANGED <<piping, force, batch_size, file, stdout, ncursor, yielded, data,
                   exc, report, exit_code>>
    /\ UNCHANGED <<as_is, parserVars, labelVars, roundVars>>

\* "Make sure to get all entries in": `if data:` write the rest, no separator.
TailFlush ==
    /\ pc = "tail"
    /\ IF data # <<>>
       THEN /\ WriteData(Fragment(data), "a")
            /\ data' = <<>>
       ELSE UNCHANGED <<file, stdout, data>>
    /\ pc' = "finally"
    /\ UNCHANGED <<piping, force, batch_size, ncursor, yielded, exc, report, exit_code>>
    /\ UNCHANGED <<as_is, parserVars, labelVars, roundVars>>

\* The user interrupts the run inside the `try` (Ctrl-C, or click aborting).
Cancel ==
    /\ pc \in {"loop", "appended", "tail"}
    /\ \E k \in {"KeyboardInterrupt", "Abort"} : exc' = k
    /\ pc' = "finally"
    /\ UNCHANGED <<piping, force, batch_size, file, stdout, ncursor, yielded, data,
                   report, exit_code>>
    /\ UNCHANGED <<as_is, parserVars, labelVars, roundVars>>

\* A `finally` that swallows the exception in flight.
AfterFinallySwallows(e) == "report"

\* Where control goes after the `finally` block.
AfterFinally(e) == IF e = "none" THEN "report" ELSE "handler"

\* The closing write placed after the `try` block instead of in `finally`.
FinallyOnlyOnSuccess ==
    /\ pc = "finally"
    /\ IF exc = "none"
       THEN WriteData(<<Tok("]")>>, "a")
       ELSE UNCHANGED <<file, stdout>>
    /\ pc' = AfterFinally(exc)
    /\ UNCHANGED <<piping, force, batch_size, ncursor, yielded, data, exc, report,
                   exit_code>>
    /\ UNCHANGED <<as_is, parserVars, labelVars, roundVars>>

\* A `finally` that writes what is left in the buffer before it closes.
FinallyFlushes ==
    /\ pc = "finally"
    /\ WriteData((IF data # <<>> THEN Fragment(data) ELSE <<>>) \o <<Tok("]")>>, "a")
    /\ data' = <<>>
    /\ pc' = AfterFinally(exc)
    /\ UNCHANGED <<piping, force, batch_size, ncursor, yielded, exc, report, exit_code>>
    /\ UNCHANGED <<as_is, parserVars, labelVars, roundVars>>

\* `finally: write_data(output, "]", mode="a")`
Finally ==
    /\ pc = "finally"
    /\ WriteData(<<Tok("]")>>, "a")
    /\ pc' = AfterFinally(exc)
    /\ UNCHANGED <<piping, force, batch_size, ncursor, yielded, data, exc, report,
                   exit_code>>
    /\ UNCHANGED <<as_is, parserVars, labelVars, roundVars>>

\* mongofy's `except click.Abort` / `except Exception`; anything else propagates.
Handler ==
    /\ pc = "handler"
    /\ report' = CASE exc = "Abort" -> "aborted"
                   [] exc = "Exception" -> "error"
                   [] OTHER -> "uncaught"
    /\ exit_code' = IF exc = "Abort" THEN 0 ELSE 1
    /\ pc' = "done"
    /\ UNCHANGED <<piping, force, batch_size, file, stdout, ncursor, yielded, data, exc>>
    /\ UNCHANGED <<as_is, parserVars, labelVars, roundVars>>

\* mongofy after the try: timing, and echo_success unless piping.
ReportSuccess ==
    /\ pc = "report"
    /\ report' = IF piping THEN report ELSE "success"
    /\ exit_code' = 0
    /\ pc' = "done"
    /\ UNCHANGED <<piping, force, batch_size, file, stdout, ncursor, yielded, data, exc>>
    /\ UNCHANGED <<as_is, parserVars, labelVars, roundVars>>

NextExport ==
    \/ Preflight
    \/ OpenSink
    \/ PullRecord
    \/ FlushCheck
    \/ LoopEnd
    \/ TailFlush
    \/ Cancel
    \/ Finally
    \/ Handler
    \/ ReportSuccess

SpecExport == InitExport /\ [][NextExport]_vars

\* The command is one synchronous thread: it runs until it exits.
FairSpecExport == SpecExport /\ WF_vars(NextExport)

(***************************************************************************)
(* Properties of the export.                                               *)
(***************************************************************************)
Docs(s) == SelectTokens(s, "doc")
Count(s, t) == Len(SelectTokens(s, t))

\* s is "[", then documents with one separator between neighbours, then "]".
IsJsonArray(s) ==
    /\ Len(s) >= 2
    /\ s[1].t = "["
    /\ s[Len(s)].t = "]"
    /\ LET inner == SubSeq(s, 2, Len(s) - 1)
       IN  \/ inner = <<>>
           \/ /\ Len(inner) % 2 = 1
              /\ \A i \in DOMAIN inner :
                    inner[i].t = IF i % 2 = 1 THEN "doc" ELSE ITEM_SEPARATOR

Opened == Len(Sink) > 0 /\ Sink[1].t = "["
Closed == Opened /\ Sink[Len(Sink)].t = "]"

\* C1: when create_mongodb returns without error, the sink holds a well-formed
\* JSON array of the n documents: "[", the documents separated by one item
\* separator each, "]", and no separator after the last document.
C1_SinkIsJsonArray ==
    pc = "report" => IsJsonArray(Sink) /\ Count(Sink, "doc") = Len(yielded)

\* C2: the batch buffer never holds more than batch_size documents; a buffer
\* that reaches batch_size is written, followed by a separator, and emptied
\* before the next row is pulled from the cursor.
C2_BufferBounded ==
    /\ Len(data) <= batch_size
    /\ pc = "loop" =>
         /\ Len(data) < batch_size
         /\ Len(data) = Len(yielded) % batch_size
         /\ Count(Sink, "doc") = Len(yielded) - Len(data)
         /\ (data = <<>> /\ yielded # <<>>) => Sink[Len(Sink)].t = ITEM_SEPARATOR

C2_Witness ==
    /\ pc = "loop" /\ batch_size = 2 /\ Len(yielded) = 2
    /\ data = <<>> /\ Count(Sink, "doc") = 2

\* C3: once "[" is written, "]" is eventually written, exactly once and as the
\* last write, on normal completion, on an error and on cancellation alike;
\* "[" is the first write and nothing is written after "]".
C3_AlwaysClosed ==
    /\ [](Opened => /\ Count(Sink, "[") = 1
                    /\ Count(Sink, "]") <= 1
                    /\ Count(Sink, "]") = 1 => Closed)
    /\ [](~Opened => (Sink = <<>> \/ (~piping /\ Sink = OldContent)))
    /\ [][Closed => Sink' = Sink]_vars
    /\ [](pc = "done" /\ Opened => Closed)
    /\ (Opened ~> Closed)

C3_Witness ==
    /\ pc = "done" /\ Closed /\ exc = "KeyboardInterrupt"
    /\ Count(Sink, "doc") = 2

\* C4: an existing output path without --force makes the command report the
\* conflict and end without writing, the file left as it was; with --force the
\* file is removed before "[" is written and ends up holding the new export only.
C4_ExistingFile ==
    /\ [][(pc = "start" /\ ~piping /\ file.exists /\ ~force) =>
            /\ pc' = "done" /\ report' = "conflict" /\ exit_code' = 1
            /\ file' = file /\ stdout' = stdout]_vars
    /\ [](report = "conflict" =>
            /\ pc = "done"
            /\ file = [exists |-> TRUE, content |-> OldContent]
            /\ stdout = <<>>)
    /\ [][(pc = "start" /\ ~piping /\ file.exists /\ force) =>
            /\ pc' = "create" /\ report' = "removing" /\ ~file'.exists]_vars
    /\ [](~piping /\ pc = "create" => ~file.exists)
    /\ [](~piping /\ pc \in {"loop", "appended", "tail", "finally", "report"} =>
            /\ file.exists
            /\ file.content[1].t = "["
            /\ Count(file.content, "old") = 0)
    /\ [](~piping /\ pc = "report" => Count(file.content, "doc") = Len(yielded))

C4_Witness ==
    /\ pc = "report" /\ report = "removing" /\ force /\ ~piping
    /\ Count(file.content, "doc") = 2 /\ Count(file.content, "old") = 0

\* i is the row whose processing raised.
RaisedAt(i) == i \in DOMAIN yielded /\ yielded[i].raises

\* C5: a row whose processing raises aborts the export: it is the last row
\* pulled, it is neither retried nor skipped over, nothing of it or after it
\* reaches the sink, and the command ends as one failure with a non-zero exit
\* status, not with a success report.
C5_ErrorAborts ==
    /\ [](\A i \in DOMAIN yielded : RaisedAt(i) =>
            /\ i = Len(yielded)
            /\ exc = "Exception"
            /\ pc \in {"finally", "handler", "done"}
            /\ Count(Sink, "doc") + Len(data) = i - 1
            /\ pc = "done" => report = "error" /\ exit_code = 1)
    /\ [][exc = "Exception" =>
            /\ yielded' = yielded /\ data' = data /\ exc' = exc
            /\ Docs(Sink') = Docs(Sink)]_vars
    /\ ((\E i \in DOMAIN yielded : RaisedAt(i)) ~> (pc = "done" /\ exit_code = 1))

C5_Witness ==
    /\ pc = "done" /\ report = "error" /\ exit_code = 1
    /\ Len(yielded) = 3 /\ RaisedAt(3) /\ ncursor = 4

\* C6: after a successful export the documents in the sink are, in number and
\* order, the rows the cursor yielded: the i-th document carries the id and
\* immutable_id of the i-th row.
C6_OrderPreserved ==
    pc = "report" =>
        /\ Len(Docs(Sink)) = Len(yielded)
        /\ \A i \in DOMAIN yielded :
              /\ Docs(Sink)[i].id = ToString(yielded[i].pk)
              /\ Docs(Sink)[i].immutable_id = UuidOf(yielded[i].pk)

C6_Witness ==
    /\ pc = "report" /\ batch_size = 2 /\ Len(yielded) = 3
    /\ yielded[1].pk > yielded[2].pk
    /\ Len(Docs(Sink)) = 3

\* The pk of the node a document was made from.
PkOf(d) == CHOOSE pk \in PKs : ToString(pk) = d.id

\* The documents of the run: the buffered ones and the exported ones.
DocsOfRun == Range(data) \cup {[id |-> tok.id, immutable_id |-> tok.immutable_id,
                                species |-> tok.species] : tok \in Range(Docs(Sink))}

\* C17: without --as-is, a species whose stored mass is a float gets, with two
\* chemical symbols one of which is "vacancy", the two-element mass list that
\* has 0.0 at the index of "vacancy" and the float at the other index; with
\* one chemical symbol, the one-element list of the float; otherwise None.
\* A stored mass that is a list or None, and every mass under --as-is, is kept.
C17_MassNormalized ==
    \A d \in DocsOfRun :
        LET stored == StoredSpecies(PkOf(d))
        IN  /\ Len(d.species) = Len(stored)
            /\ \A i \in DOMAIN stored :
                  LET symbols == stored[i].chemical_symbols
                      out == d.species[i].mass
                  IN  /\ d.species[i].chemical_symbols = symbols
                      /\ IF as_is \/ stored[i].mass.type # "float"
                         THEN out = stored[i].mass
                         ELSE IF Len(symbols) = 2 /\ "vacancy" \in Range(symbols)
                         THEN /\ out.type = "list"
                              /\ Len(out.v) = 2
                              /\ \E k \in 1 .. 2 :
                                    /\ symbols[k] = "vacancy"
                                    /\ out.v[k] = 0
                                    /\ out.v[3 - k] = stored[i].mass.v[1]
                         ELSE IF Len(symbols) = 1
                         THEN out = MassList(<<stored[i].mass.v[1]>>)
                         ELSE out = MassNone

C17_Witness ==
    /\ pc = "report" /\ ~as_is
    /\ {tok.id : tok \in Range(Docs(Sink))} = {"1", "2", "3"}
    /\ Docs(Sink)[1].species[2].mass = MassList(<<56, 0>>)
    /\ \E i \in 1 .. 3 : /\ Docs(Sink)[i].id = "2"
                         /\ Docs(Sink)[i].species[1].mass = MassList(<<0, 56>>)
                         /\ Docs(Sink)[i].species[2].mass = MassNone

\* How many documents were appended to the buffer so far.
Appended == Cardinality({i \in DOMAIN yielded : ~yielded[i].raises})

\* C20, as stated: on every exit path, failure included, what is left in the
\* buffer is written before "]": after the close no appended document is
\* missing from the sink.
C20_FlushedOnEveryExit ==
    Closed => /\ Count(Sink, "doc") = Appended
              /\ \A d \in Range(data) : DocTok(d) \in Range(Sink)

\* C20, amended: when the loop ends normally, what is left in the buffer is
\* written, without a separator after it, before "]", and after the close
\* every appended document is in the sink; when a row raises or the run is
\* cancelled, only "]" is written: the documents in the buffer at that moment
\* stay unwritten and the sink holds the batches flushed before, no more.
C20_FlushedOnSuccessOnly ==
    /\ [][(pc = "tail" /\ pc' = "finally" /\ exc' = "none" /\ data # <<>>) =>
            /\ Sink' = Sink \o Fragment(data)
            /\ Sink'[Len(Sink')].t = "doc"
            /\ data' = <<>>]_vars
    /\ [][pc = "finally" => /\ Sink' = Append(Sink, Tok("]"))
                            /\ data' = data]_vars
    /\ [](Closed /\ exc = "none" =>
            /\ data = <<>>
            /\ Count(Sink, "doc") = Appended)
    /\ [](Closed /\ exc # "none" =>
            /\ Count(Sink, "doc") = Appended - Len(data)
            /\ \A d \in Range(data) : DocTok(d) \notin Range(Sink))

C20_Witness ==
    /\ pc = "done" /\ Closed /\ exc = "Exception"
    /\ batch_size = 2 /\ Appended = 3
    /\ Len(data) = 1 /\ Count(Sink, "doc") = 2

(***************************************************************************)
(* Numbers.  Weights, occupations and ratios are exact rationals [n, d],   *)
(* d > 0, in lowest terms; the weights used are dyadic, so the sums and    *)
(* products below are the values the floats hold.                          *)
(***************************************************************************)
Abs(x) == IF x < 0 THEN -x ELSE x

RECURSIVE GCD(_, _)
GCD(a, b) == IF b = 0 THEN a ELSE GCD(b, a % b)

Rat(n, d) ==
    LET g == GCD(Abs(n), d)
    IN  IF n = 0 THEN [n |-> 0, d |-> 1] ELSE [n |-> n \div g, d |-> d \div g]

Zero == Rat(0, 1)
One == Rat(1, 1)
RAdd(a, b) == Rat(a.n * b.d + b.n * a.d, a.d * b.d)
RSub(a, b) == Rat(a.n * b.d - b.n * a.d, a.d * b.d)
RMulInt(a, k) == Rat(a.n * k, a.d)
RLt(a, b) == a.n * b.d < b.n * a.d
\* a / b for b # 0 (Python raises ZeroDivisionError on b = 0)
RDiv(a, b) == IF b.n < 0 THEN Rat(-(a.n * b.d), a.d * (-b.n)) ELSE Rat(a.n * b.d, a.d * b.n)
\* float.is_integer()
IsInteger(a) == a.d = 1

RECURSIVE RSum(_)
RSum(seq) == IF seq = <<>> THEN Zero ELSE RAdd(Head(seq), RSum(Tail(seq)))

\* Python's round(x) on a float: to the nearest integer, ties to the even one.
Round(a) ==
    LET q == a.n \div a.d
        r == a.n % a.d
    IN  IF 2 * r < a.d THEN q
        ELSE IF 2 * r > a.d THEN q + 1
        ELSE IF q % 2 = 0 THEN q ELSE q + 1

(***************************************************************************)
(* The StructureData node (aiida.orm), as the parser reads it.             *)
(***************************************************************************)
\* The symbols in the order Python's sorted() puts them.
SymbolOrder == <<"Cl", "Fe", "Na", "X">>
Rank(sym) == CHOOSE i \in DOMAIN SymbolOrder : SymbolOrder[i] = sym

\* sorted(S)
Sorted(S) ==
    LET RECURSIVE Asc(_)
        Asc(T) ==
            IF T = {} THEN <<>>
            ELSE LET m == CHOOSE x \in T : \A y \in T : Rank(x) <= Rank(y)
                 IN  <<m>> \o Asc(T \ {m})
    IN  Asc(S)

\* list.remove(x): drops the first occurrence
RECURSIVE ListRemove(_, _)
ListRemove(seq, x) ==
    IF seq = <<>> THEN <<>>
    ELSE IF Head(seq) = x THEN Tail(seq)
    ELSE <<Head(seq)>> \o ListRemove(Tail(seq), x)

\* The kinds a structure is built from: name, symbols, weights (sum <= 1), mass.
KindPool ==
    { [name |-> "Fe",    symbols |-> <<"Fe">>,       weights |-> <<Rat(1, 1)>>, mass |-> 56],
      [name |-> "FeX",   symbols |-> <<"Fe">>,       weights |-> <<Rat(1, 2)>>, mass |-> 56],
      [name |-> "Fe0",   symbols |-> <<"Fe">>,       weights |-> <<Rat(0, 1)>>, mass |-> 56],
      [name |-> "NaCl",  symbols |-> <<"Na", "Cl">>, weights |-> <<Rat(1, 2), Rat(1, 2)>>,
       mass |-> 29],
      [name |-> "ClFeX", symbols |-> <<"Cl", "Fe">>, weights |-> <<Rat(1, 4), Rat(1, 2)>>,
       mass |-> 49],
      [name |-> "Cl",    symbols |-> <<"Cl">>,       weights |-> <<Rat(1, 1)>>, mass |-> 35],
      [name |-> "X",     symbols |-> <<"X">>,        weights |-> <<Rat(1, 1)>>, mass |-> 0] }

\* float("NaN"): the one number that is not even equal to itself.
NaN == [n |-> 0, d |-> 0]

\* The positions a site can have; a component can be NaN.
PositionPool ==
    { <<Zero, Zero, Zero>>,
      <<NaN, Zero, Rat(1, 2)>> }

SitePool ==
    { [kind_name |-> kd.name, position |-> p] : kd \in KindPool, p \in PositionPool }

RECURSIVE SeqsUpTo(_, _)
SeqsUpTo(S, n) ==
    IF n = 0 THEN {<<>>}
    ELSE LET shorter == SeqsUpTo(S, n - 1)
         IN  shorter \cup {Append(q, x) : q \in shorter, x \in S}

\* The cells a structure can have: three lattice vectors, a component of
\* which can be negative.
CellPool ==
    { <<<<One, Zero, Zero>>, <<Zero, One, Zero>>, <<Zero, Zero, One>>>>,
      <<<<One, Zero, Zero>>, <<Rat(-1, 2), One, Zero>>, <<Zero, Zero, One>>>> }

\* Kind names are unique in a node; every site names one of the node's kinds.
Nodes ==
    { [uuid |-> "uuid-1", cell |-> c, kinds |-> ks[1], sites |-> ks[2]] :
        c \in CellPool,
        ks \in
          { <<k, q>> \in SeqsUpTo(KindPool, MaxKinds) \X SeqsUpTo(SitePool, MaxSites) :
              /\ \A i, j \in DOMAIN k : i # j => k[i].name # k[j].name
              /\ \A i \in DOMAIN q : \E j \in DOMAIN k : k[j].name = q[i].kind_name } }

\* StructureData.get_symbols_set()
GetSymbolsSet(n) == UNION {Range(k.symbols) : k \in Range(n.kinds)}

(***************************************************************************)
(* AiidaEntityParser                                                       *)
(***************************************************************************)
Return(c, v) == [cache |-> c, ok |-> TRUE, val |-> v, err |-> ""]
Raise(c, e) == [cache |-> c, ok |-> FALSE, val |-> <<>>, err |-> e]

\* self.new_attributes[attribute] = res
Put(c, attribute, res) == (attribute :> res) @@ c

\* `self._node_loaded` as the getter reads it: the attribute is the bound
\* method itself (it is not called, and is no property), which is truthy.
NodeLoadedAttr == TRUE

\* _get_unique_node_property("*"): the node that has the parser's uuid, unless
\* query.count() != 1
Lookup ==
    IF found # 1
    THEN [ok |-> FALSE, val |-> NoNode, err |-> "AiidaEntityNotFound"]
    ELSE [ok |-> TRUE, val |-> node, err |-> ""]

\* The `_node` property getter.  Its body reads `self._node` again (for
\* `.uuid`, and in `return self._node`), which enters the getter anew; the
\* interpreter stops the descent with RecursionError.  The assignment
\* `self._node = ...` of the body is in the branch `load`, which no call
\* reaches: self.__node stays as it was.
RECURSIVE NodeGetter(_)
NodeGetter(depth) ==
    IF depth > RecursionLimit
    THEN [ok |-> FALSE, val |-> NoNode, err |-> "RecursionError"]
    ELSE LET again == NodeGetter(depth + 1)    \* a read of self._node in the body
             load == IF Lookup.ok THEN again ELSE Lookup
         IN  IF ~NodeLoadedAttr THEN load
             ELSE IF ~again.ok THEN again       \* `self._node.uuid` raised
             ELSE IF again.val.uuid # node.uuid THEN load
             ELSE again

NodeGet == NodeGetter(1)

\* What the node's extras can hold under EXTRAS_KEY before the parser runs.
ExtrasPool ==
    { NoExtras,
      [set |-> TRUE, optimade |-> ("elements" :> <<"H">>)],
      [set |-> TRUE, optimade |-> ("elements" :> <<"H">>) @@ ("nsites" :> 7)] }

\* _get_optimade_extras(): `self._node_loaded` is read, not called, here too.
GetOptimadeExtras ==
    IF NodeLoadedAttr
    THEN LET nd == NodeGet
         IN  IF ~nd.ok THEN [ok |-> FALSE, val |-> NoExtras, err |-> nd.err]
             ELSE [ok |-> TRUE, val |-> extras, err |-> ""]
    ELSE IF found # 1
    THEN [ok |-> FALSE, val |-> NoExtras, err |-> "AiidaEntityNotFound"]
    ELSE [ok |-> TRUE, val |-> extras, err |-> ""]

\* optimade.update(self.new_attributes), or new_attributes alone when nothing
\* (or an empty dictionary) was stored
MergeAttributes(optimade, c) ==
    IF optimade.set /\ optimade.optimade # <<>>
    THEN [set |-> TRUE, optimade |-> c @@ optimade.optimade]
    ELSE [set |-> TRUE, optimade |-> c]

\* store_attributes(), given the cache: the extras and the handle afterwards,
\* or the error raised with both left as they were.
store_attributes(c) ==
    LET optimade == GetOptimadeExtras
    IN  IF ~optimade.ok
        THEN [ok |-> FALSE, err |-> optimade.err, extras |-> extras, loaded |-> loaded]
        ELSE LET nd == NodeGet    \* self._node.set_extra(...)
             IN  IF ~nd.ok
                 THEN [ok |-> FALSE, err |-> nd.err, extras |-> extras, loaded |-> loaded]
                 ELSE [ok |-> TRUE, err |-> "",
                       extras |-> MergeAttributes(optimade.val, c),
                       loaded |-> FALSE]

(***************************************************************************)
(* StructureDataParser: helpers                                            *)
(***************************************************************************)
\* len([_ for _ in self._node.sites if _.kind_name == kind.name])
NumberOfSites(n, kind) ==
    Cardinality({i \in DOMAIN n.sites : n.sites[i].kind_name = kind.name})

\* occupation[symbol], summed over the kinds and their symbols
OccupationOf(n, sym) ==
    LET RECURSIVE OverSymbols(_, _)
        OverSymbols(kind, i) ==
            IF i > Len(kind.symbols) THEN Zero
            ELSE RAdd(IF kind.symbols[i] = sym
                      THEN RMulInt(kind.weights[i], NumberOfSites(n, kind))
                      ELSE Zero,
                      OverSymbols(kind, i + 1))
        RECURSIVE OverKinds(_)
        OverKinds(k) ==
            IF k > Len(n.kinds) THEN Zero
            ELSE RAdd(OverSymbols(n.kinds[k], 1), OverKinds(k + 1))
    IN  OverKinds(1)

\* get_symbol_weights(), given the node: a dict over sorted(get_symbols_set())
GetSymbolWeights(n) == [sym \in GetSymbolsSet(n) |-> OccupationOf(n, sym)]

\* get_symbol_weights() as a call: it reads self._node first
get_symbol_weights ==
    LET nd == NodeGet
    IN  IF ~nd.ok THEN [ok |-> FALSE, val |-> <<>>, err |-> nd.err]
        ELSE [ok |-> TRUE, val |-> GetSymbolWeights(nd.val), err |-> ""]

might_as_well_be_zero == Rat(1, 100000000)

\* check_floating_round_errors on a list of lists of numbers
CheckFloatingRoundErrors(some_list) ==
    [i \in DOMAIN some_list |->
        [j \in DOMAIN some_list[i] |->
            IF RLt(some_list[i][j], might_as_well_be_zero)
            THEN Zero
            ELSE some_list[i][j]]]

\* StructureData.has_vacancies: some kind's weights sum to less than 1.
HasVacancies(n) == \E kind \in Range(n.kinds) : RLt(RSum(kind.weights), One)

\* has_partial_occupancy(): first vacancies, next the aggregated weights
has_partial_occupancy ==
    LET nd == NodeGet
    IN  IF ~nd.ok THEN [ok |-> FALSE, val |-> FALSE, err |-> nd.err]
        ELSE IF HasVacancies(nd.val) THEN [ok |-> TRUE, val |-> TRUE, err |-> ""]
        ELSE LET occupation == GetSymbolWeights(nd.val)
             IN  [ok |-> TRUE,
                  val |-> \E sym \in DOMAIN occupation : ~IsInteger(occupation[sym]),
                  err |-> ""]

\* a == b on floats: NaN equals nothing, itself included.
FloatEq(a, b) == a # NaN /\ b # NaN /\ a = b

\* `x in some_list` for a float x made on the spot (identical to no element).
FloatIn(x, some_list) == \E i \in DOMAIN some_list : FloatEq(some_list[i], x)

(***************************************************************************)
(* StructureDataParser: the OPTIMADE fields.  Each takes the cache c and   *)
(* gives the cache afterwards with the value returned or the error raised. *)
(***************************************************************************)
Cached(c, attribute) == attribute \in DOMAIN c

elements(c) ==
    IF Cached(c, "elements") THEN Return(c, c["elements"])
    ELSE LET nd == NodeGet
         IN  IF ~nd.ok THEN Raise(c, nd.err)
             ELSE LET sorted == Sorted(GetSymbolsSet(nd.val))
                      res == IF "X" \in Range(sorted) THEN ListRemove(sorted, "X") ELSE sorted
                  IN  Return(Put(c, "elements", res), res)

nelements(c) ==
    IF Cached(c, "nelements") THEN Return(c, c["nelements"])
    ELSE LET el == elements(c)
         IN  IF ~el.ok THEN el
             ELSE Return(Put(el.cache, "nelements", Len(el.val)), Len(el.val))

elements_ratios(c) ==
    IF Cached(c, "elements_ratios") THEN Return(c, c["elements_ratios"])
    ELSE LET nd == NodeGet
         IN  IF ~nd.ok THEN Raise(c, nd.err)
             ELSE LET ratios == GetSymbolWeights(nd.val)
                      total_weight == RSum([i \in 1 .. Len(Sorted(DOMAIN ratios)) |->
                                              ratios[Sorted(DOMAIN ratios)[i]]])
                      el == elements(c)
                  IN  IF ~el.ok THEN el
                      ELSE IF el.val # <<>> /\ total_weight = Zero
                      THEN Raise(el.cache, "ZeroDivisionError")
                      ELSE LET res == [i \in DOMAIN el.val |->
                                         RDiv(ratios[el.val[i]], total_weight)]
                               should_be_zero == RSub(One, RSum(res))
                           IN  IF CheckFloatingRoundErrors(<<<<should_be_zero>>>>) # <<<<Zero>>>>
                               THEN Raise(el.cache, "DeductionError")
                               ELSE Return(Put(el.cache, "elements_ratios", res), res)

\* f"{symbol}{number}", as text pieces; an empty number leaves the name alone
Piece(name, number) == IF number = "" THEN <<name>> ELSE <<name, number>>

RECURSIVE Join(_)
Join(pieces) == IF pieces = <<>> THEN <<>> ELSE Head(pieces) \o Join(Tail(pieces))

chemical_formula_reduced(c) ==
    IF Cached(c, "chemical_formula_reduced") THEN Return(c, c["chemical_formula_reduced"])
    ELSE LET nd == NodeGet
         IN  IF ~nd.ok THEN Raise(c, nd.err)
             ELSE LET weights == GetSymbolWeights(nd.val)
                      occupation == [sym \in DOMAIN weights |->
                                       IF Round(weights[sym]) \in {0, 1} THEN ""
                                       ELSE ToString(Round(weights[sym]))]
                      el == elements(c)
                  IN  IF ~el.ok THEN el
                      ELSE LET res == Join([i \in DOMAIN el.val |->
                                              Piece(el.val[i], occupation[el.val[i]])])
                           IN  Return(Put(el.cache, "chemical_formula_reduced", res), res)

ascii_uppercase ==
    <<"A", "B", "C", "D", "E", "F", "G", "H", "I", "J", "K", "L", "M",
      "N", "O", "P", "Q", "R", "S", "T", "U", "V", "W", "X", "Y", "Z">>
ascii_lowercase ==
    <<"a", "b", "c", "d", "e", "f", "g", "h", "i", "j", "k", "l", "m",
      "n", "o", "p", "q", "r", "s", "t", "u", "v", "w", "x", "y", "z">>

\* The symbol the loop would give if the lowercase letter advanced with every
\* index instead of once per pass over the uppercase alphabet.
AnonymousSymbolCycling(i) ==
    LET symbol == ascii_uppercase[(i % Len(ascii_uppercase)) + 1]
    IN  IF i >= Len(ascii_uppercase)
        THEN symbol \o ascii_lowercase[
                 ((i - Len(ascii_uppercase)) % Len(ascii_lowercase)) + 1]
        ELSE symbol

\* The anonymous symbol of loop index i (0-based, as range(nelements) gives it)
AnonymousSymbol(i) ==
    LET symbol == ascii_uppercase[(i % Len(ascii_uppercase)) + 1]
    IN  IF i >= Len(ascii_uppercase)
        THEN symbol \o ascii_lowercase[
                 (((i - Len(ascii_uppercase)) \div Len(ascii_lowercase))
                    % Len(ascii_lowercase)) + 1]
        ELSE symbol

chemical_formula_anonymous(c) ==
    IF Cached(c, "chemical_formula_anonymous") THEN Return(c, c["chemical_formula_anonymous"])
    ELSE LET el == elements(c)
         IN  IF ~el.ok THEN el
             ELSE LET nel == nelements(el.cache)
                  IN  IF ~nel.ok THEN nel
                      ELSE LET anonymous_elements == [i \in 1 .. nel.val |-> AnonymousSymbol(i - 1)]
                               \* dict(zip(elements, anonymous_elements))
                               zipped == 1 .. (IF Len(el.val) < nel.val
                                               THEN Len(el.val) ELSE nel.val)
                               map_anonymous ==
                                   [sym \in {el.val[i] : i \in zipped} |->
                                      anonymous_elements[CHOOSE i \in zipped : el.val[i] = sym]]
                               nd == NodeGet
                           IN  IF ~nd.ok THEN Raise(nel.cache, nd.err)
                               ELSE LET weights == GetSymbolWeights(nd.val)
                                        occupation == [sym \in DOMAIN weights |->
                                                         IF Round(weights[sym]) = 1 THEN ""
                                                         ELSE ToString(Round(weights[sym]))]
                                        res == Join([i \in DOMAIN el.val |->
                                                       Piece(map_anonymous[el.val[i]],
                                                             occupation[el.val[i]])])
                                    IN  Return(Put(nel.cache, "chemical_formula_anonymous", res),
                                               res)

\* Python's None, where a formula (a list of text pieces) is expected.
None == <<"None">>

\* StructureData.get_formula(mode): aiida's own formula of the node's sites;
\* its text is not looked into here.
GetFormula(n, mode) == <<mode>> \o [i \in DOMAIN n.sites |-> n.sites[i].kind_name]

chemical_formula_hill(c) ==
    IF Cached(c, "chemical_formula_hill") THEN Return(c, c["chemical_formula_hill"])
    ELSE LET nd == NodeGet
         IN  IF ~nd.ok THEN Raise(c, nd.err)
             ELSE LET partial == has_partial_occupancy
                  IN  IF ~partial.ok THEN Raise(c, partial.err)
                      ELSE LET res == IF partial.val THEN None
                                      ELSE GetFormula(nd.val, "hill")
                           IN  Return(Put(c, "chemical_formula_hill", res), res)

\* re.match(r"[\w]*X[\d]*", name): of the kind names in KindPool, the pattern
\* matches the ones that have an "X" in them.
MatchesVacancyName(name) == name \in {"FeX", "ClFeX", "X"}

\* 0.0 <= kind_weight_sum <= 1.0
InUnitInterval(x) == ~RLt(x, Zero) /\ ~RLt(One, x)

\* The species dictionary built for one kind, while kind_weight_sum is in [0;1].
SpeciesOfKind(kind) ==
    LET kind_weight_sum == RSum(kind.weights)
        vacancy == MatchesVacancyName(kind.name)
    IN  [name |-> kind.name,
         chemical_symbols |-> IF vacancy THEN Append(kind.symbols, "vacancy")
                              ELSE kind.symbols,
         concentration |-> IF vacancy
                           THEN Append(kind.weights, RSub(One, kind_weight_sum))
                           ELSE kind.weights,
         mass |-> kind.mass,
         original_name |-> kind.name]

species(c) ==
    IF Cached(c, "species") THEN Return(c, c["species"])
    ELSE LET nd == NodeGet
         IN  IF ~nd.ok THEN Raise(c, nd.err)
             ELSE IF \E kind \in Range(nd.val.kinds) :
                        /\ MatchesVacancyName(kind.name)
                        /\ ~InUnitInterval(RSum(kind.weights))
             THEN Raise(c, "ValueError")
             ELSE LET res == [i \in DOMAIN nd.val.kinds |-> SpeciesOfKind(nd.val.kinds[i])]
                  IN  Return(Put(c, "species", res), res)

cartesian_site_positions(c) ==
    IF Cached(c, "cartesian_site_positions") THEN Return(c, c["cartesian_site_positions"])
    ELSE LET nd == NodeGet
         IN  IF ~nd.ok THEN Raise(c, nd.err)
             ELSE LET sites == [i \in DOMAIN nd.val.sites |-> nd.val.sites[i].position]
                      res == CheckFloatingRoundErrors(sites)
                  IN  Return(Put(c, "cartesian_site_positions", res), res)

lattice_vectors(c) ==
    IF Cached(c, "lattice_vectors") THEN Return(c, c["lattice_vectors"])
    ELSE LET nd == NodeGet
         IN  IF ~nd.ok THEN Raise(c, nd.err)
             ELSE LET res == CheckFloatingRoundErrors(nd.val.cell)
                  IN  Return(Put(c, "lattice_vectors", res), res)

nsites(c) ==
    IF Cached(c, "nsites") THEN Return(c, c["nsites"])
    ELSE LET pos == cartesian_site_positions(c)
         IN  IF ~pos.ok THEN pos
             ELSE Return(Put(pos.cache, "nsites", Len(pos.val)), Len(pos.val))

species_at_sites(c) ==
    IF Cached(c, "species_at_sites") THEN Return(c, c["species_at_sites"])
    ELSE LET nd == NodeGet
         IN  IF ~nd.ok THEN Raise(c, nd.err)
             ELSE LET res == [i \in DOMAIN nd.val.sites |-> nd.val.sites[i].kind_name]
                  IN  Return(Put(c, "species_at_sites", res), res)

\* The "disorder" loop over the species list: "raise" on an item without the
\* key, "disorder" at the first item with more than one symbol, else "none".
RECURSIVE DisorderScan(_, _)
DisorderScan(sp, key) ==
    IF sp = <<>> THEN "none"
    ELSE IF key \notin DOMAIN Head(sp) THEN "raise"
    ELSE IF Len(Head(sp)[key]) > 1 THEN "disorder"
    ELSE DisorderScan(Tail(sp), key)

structure_features(c) ==
    IF Cached(c, "structure_features") THEN Return(c, c["structure_features"])
    ELSE LET partial == has_partial_occupancy
         IN  IF ~partial.ok THEN Raise(c, partial.err)
             ELSE IF ~partial.val THEN Return(Put(c, "structure_features", <<>>), <<>>)
             ELSE LET sp == species(c)
                  IN  IF ~sp.ok THEN sp
                      ELSE LET scan == DisorderScan(sp.val, "chemical_symbols")
                           IN  IF scan = "raise" THEN Raise(sp.cache, "OptimadeIntegrityError")
                               ELSE LET pos == cartesian_site_positions(sp.cache)
                                    IN  IF ~pos.ok THEN pos
                                        ELSE LET res ==
                                                   (IF scan = "disorder"
                                                    THEN <<"disorder">> ELSE <<>>)
                                                   \o (IF \E i \in DOMAIN pos.val :
                                                              FloatIn(NaN, pos.val[i])
                                                       THEN <<"unknown_positions">> ELSE <<>>)
                                             IN  Return(Put(pos.cache, "structure_features", res),
                                                        res)

(***************************************************************************)
(* One parser for one node, and the calls made on it.                      *)
(***************************************************************************)
InitParser ==
    /\ node \in Nodes
    /\ found \in {0, 1}
    /\ extras \in ExtrasPool
    /\ loaded = FALSE
    /\ new_attributes = <<>>
    /\ called = "none"
    /\ ret = NoReturn
    /\ ExportIdle
    /\ LabelIdle
    /\ RoundIdle

\* The caller sees the value returned or the exception raised.
Outcome(method, r) ==
    /\ new_attributes' = r.cache
    /\ called' = method
    /\ ret' = [kind |-> IF r.ok THEN "value" ELSE "raise", val |-> r.val, err |-> r.err]
    /\ UNCHANGED <<node, found, extras, loaded, exportVars, labelVars, roundVars>>

CallElements == node # NoNode /\ Outcome("elements", elements(new_attributes))

CallNelements == node # NoNode /\ Outcome("nelements", nelements(new_attributes))

CallElementsRatios ==
    node # NoNode /\ Outcome("elements_ratios", elements_ratios(new_attributes))

CallChemicalFormulaReduced ==
    node # NoNode /\ Outcome("chemical_formula_reduced", chemical_formula_reduced(new_attributes))

CallChemicalFormulaAnonymous ==
    node # NoNode /\ Outcome("chemical_formula_anonymous", chemical_formula_anonymous(new_attributes))

CallStoreAttributes ==
    /\ node # NoNode
    /\ LET r == store_attributes(new_attributes)
       IN  /\ extras' = r.extras
           /\ loaded' = r.loaded
           /\ called' = "store_attributes"
           /\ ret' = [kind |-> IF r.ok THEN "value" ELSE "raise", val |-> <<>>, err |-> r.err]
    /\ UNCHANGED <<node, found, new_attributes, exportVars, labelVars, roundVars>>

CallSpecies == node # NoNode /\ Outcome("species", species(new_attributes))

CallCartesianSitePositions ==
    node # NoNode /\ Outcome("cartesian_site_positions", cartesian_site_positions(new_attributes))

CallStructureFeatures ==
    node # NoNode /\ Outcome("structure_features", structure_features(new_attributes))

CallChemicalFormulaHill ==
    node # NoNode /\ Outcome("chemical_formula_hill", chemical_formula_hill(new_attributes))

CallLatticeVectors ==
    node # NoNode /\ Outcome("lattice_vectors", lattice_vectors(new_attributes))

CallNsites == node # NoNode /\ Outcome("nsites", nsites(new_attributes))

CallSpeciesAtSites ==
    node # NoNode /\ Outcome("species_at_sites", species_at_sites(new_attributes))

\* The helper called on its own; it caches nothing.
CallGetSymbolWeights ==
    /\ node # NoNode
    /\ LET r == get_symbol_weights
       IN  Outcome("get_symbol_weights",
                   [cache |-> new_attributes, ok |-> r.ok, val |-> r.val, err |-> r.err])

NextParser ==
    \/ CallElements
    \/ CallNelements
    \/ CallElementsRatios
    \/ CallChemicalFormulaReduced
    \/ CallChemicalFormulaAnonymous
    \/ CallSpecies
    \/ CallCartesianSitePositions
    \/ CallStructureFeatures
    \/ CallChemicalFormulaHill
    \/ CallStoreAttributes
    \/ CallLatticeVectors
    \/ CallNsites
    \/ CallSpeciesAtSites
    \/ CallGetSymbolWeights

SpecParser == InitParser /\ [][NextParser]_vars

(***************************************************************************)
(* The anonymous symbols on their own: one loop index, one symbol.         *)
(***************************************************************************)
\* "This does not expect more than Zz elements (26+26*26 = 702)"
MaxElements == 702

InitLabel ==
    /\ label_i \in 0 .. MaxElements - 1
    /\ label_sym = ""
    /\ ExportIdle
    /\ ParserIdle
    /\ RoundIdle

ComputeSymbol ==
    /\ label_i >= 0
    /\ label_sym = ""
    /\ label_sym' = AnonymousSymbol(label_i)
    /\ UNCHANGED <<label_i, exportVars, parserVars, roundVars>>

NextLabel == ComputeSymbol

SpecLabel == InitLabel /\ [][NextLabel]_vars

(***************************************************************************)
(* check_floating_round_errors on its own: one list of lists, one call.    *)
(***************************************************************************)
\* The floats of the lists: well away from zero and within 1e-8 of it, on
\* both sides of zero.
FloatPool ==
    { Rat(1, 2), Rat(-1, 2), Rat(1, 1000000000), Rat(-1, 1000000000) }

InitRound ==
    /\ round_pc = "call"
    /\ round_arg \in SeqsUpTo(SeqsUpTo(FloatPool, MaxCols), MaxRows)
    /\ round_res = <<>>
    /\ ExportIdle
    /\ ParserIdle
    /\ LabelIdle

CallCheckFloatingRoundErrors ==
    /\ round_pc = "call"
    /\ round_res' = CheckFloatingRoundErrors(round_arg)
    /\ round_pc' = "returned"
    /\ UNCHANGED <<round_arg, exportVars, parserVars, labelVars>>

NextRound == CallCheckFloatingRoundErrors

SpecRound == InitRound /\ [][NextRound]_vars

(***************************************************************************)
(* Properties of the derived fields.                                       *)
(***************************************************************************)
StrictlySorted(seq) ==
    \A i, j \in DOMAIN seq : i < j => Rank(seq[i]) < Rank(seq[j])

\* The integers nearest to a non-negative rational (two of them on a tie).
NearestIntegers(w) ==
    {k \in 0 .. (w.n \div w.d) + 1 : 2 * Abs(k * w.d - w.n) <= w.d}

\* The formulas that print, for the symbols of `names` in order, the label
\* and an integer nearest to the symbol's aggregated weight, with the
\* integers of `silent` left out.
FormulasOf(names, labels, silent) ==
    LET w == GetSymbolWeights(node)
    IN  { Join([i \in DOMAIN names |->
                  Piece(labels[i],
                        IF f[i] \in silent THEN "" ELSE ToString(f[i]))]) :
            f \in { g \in [DOMAIN names -> 0 .. MaxSites + 1] :
                      \A i \in DOMAIN names : g[i] \in NearestIntegers(w[names[i]]) } }

ElementsOfNode == Sorted(GetSymbolsSet(node) \ {"X"})

\* C7: nelements() is len(elements()); elements() is strictly increasing in
\* alphabetical order and holds no "X", whichever is called first and after
\* any other derivation calls.
C7_ElementsSortedUnique ==
    /\ Cached(new_attributes, "elements") =>
         /\ StrictlySorted(new_attributes["elements"])
         /\ "X" \notin Range(new_attributes["elements"])
         /\ Range(new_attributes["elements"]) = GetSymbolsSet(node) \ {"X"}
    /\ Cached(new_attributes, "nelements") =>
         /\ Cached(new_attributes, "elements")
         /\ new_attributes["nelements"] = Len(new_attributes["elements"])
    /\ called = "elements" =>
         /\ ret.kind = "value"
         /\ ret.val = new_attributes["elements"]
    /\ called = "nelements" =>
         /\ ret.kind = "value"
         /\ ret.val = Len(new_attributes["elements"])

\* C8: elements_ratios() returns, per element of elements() and in that
\* order, weight / total weight, the ratios summing to 1 within 1e-8, or it
\* raises DeductionError; no list with another sum is returned or cached.
C8_RatiosSumToOne ==
    /\ Cached(new_attributes, "elements_ratios") =>
         LET off == RSub(One, RSum(new_attributes["elements_ratios"]))
         IN  RLt(off, might_as_well_be_zero) /\ RLt(RSub(Zero, off), might_as_well_be_zero)
    /\ called = "elements_ratios" =>
         \/ /\ ret.kind = "raise"
            /\ ret.err = "DeductionError"
            /\ ~Cached(new_attributes, "elements_ratios")
         \/ /\ ret.kind = "value"
            /\ ret.val = new_attributes["elements_ratios"]
            /\ Len(ret.val) = Len(ElementsOfNode)
            /\ LET w == GetSymbolWeights(node)
                   total == RSum([i \in DOMAIN SymbolOrder |->
                                    IF SymbolOrder[i] \in DOMAIN w
                                    THEN w[SymbolOrder[i]] ELSE Zero])
               IN  \A i \in DOMAIN ret.val :
                     RAdd(Zero, [n |-> ret.val[i].n * total.n, d |-> ret.val[i].d * total.d])
                       = RAdd(Zero, w[ElementsOfNode[i]])

\* C9: chemical_formula_reduced() is, over elements() in alphabetical order,
\* the symbol followed by its aggregated weight rounded to the nearest
\* integer, nothing being printed for 0 and 1; it never shows an exponent 1.
C9_ReducedFormula ==
    called = "chemical_formula_reduced" =>
        /\ ret.kind = "value"
        /\ ret.val \in FormulasOf(ElementsOfNode, ElementsOfNode, {0, 1})
        /\ "1" \notin Range(ret.val)
        /\ new_attributes["chemical_formula_reduced"] = ret.val

\* C10: chemical_formula_anonymous() gives the element at index i of
\* elements() the label UPPER[i mod 26], followed for i >= 26 by
\* LOWER[((i - 26) div 26) mod 26], and prints after each label the rounded
\* aggregated weight unless it is 1.
C10_AnonymousFormula ==
    called = "chemical_formula_anonymous" =>
        /\ ret.kind = "value"
        /\ ret.val \in FormulasOf(ElementsOfNode,
                                  [i \in DOMAIN ElementsOfNode |->
                                     IF i - 1 < 26
                                     THEN ascii_uppercase[((i - 1) % 26) + 1]
                                     ELSE ascii_uppercase[((i - 1) % 26) + 1]
                                          \o ascii_lowercase[(((i - 27) \div 26) % 26) + 1]],
                                  {1})
        /\ new_attributes["chemical_formula_anonymous"] = ret.val

\* C11: species() gives every kind whose name matches the vacancy pattern a
\* last chemical symbol "vacancy" with concentration 1 - sum(weights), and
\* leaves the other kinds without one; a sum outside [0, 1] raises ValueError
\* and caches no species list.
C11_SpeciesVacancy ==
    called = "species" =>
        IF \E kind \in Range(node.kinds) :
              MatchesVacancyName(kind.name) /\ ~InUnitInterval(RSum(kind.weights))
        THEN /\ ret.kind = "raise" /\ ret.err = "ValueError"
             /\ ~Cached(new_attributes, "species")
        ELSE /\ ret.kind = "value"
             /\ Len(ret.val) = Len(node.kinds)
             /\ \A i \in DOMAIN node.kinds :
                   LET kind == node.kinds[i]
                       sp == ret.val[i]
                   IN  IF MatchesVacancyName(kind.name)
                       THEN /\ sp.chemical_symbols = Append(kind.symbols, "vacancy")
                            /\ sp.concentration =
                                  Append(kind.weights, RSub(One, RSum(kind.weights)))
                       ELSE /\ sp.chemical_symbols = kind.symbols
                            /\ sp.concentration = kind.weights

\* C12: structure_features() contains "disorder" exactly when some entry of
\* species() has more than one chemical symbol.
C12_Disorder ==
    called = "structure_features" =>
        /\ ret.kind = "value"
        /\ ("disorder" \in Range(ret.val)) <=>
              (\E kind \in Range(node.kinds) :
                  Len(SpeciesOfKind(kind).chemical_symbols) > 1)

\* C13: structure_features() contains "unknown_positions" exactly when some
\* component of some entry of cartesian_site_positions() is NaN.
C13_UnknownPositions ==
    called = "structure_features" =>
        /\ ret.kind = "value"
        /\ ("unknown_positions" \in Range(ret.val)) <=>
              (\E i \in DOMAIN node.sites :
                  \E j \in DOMAIN node.sites[i].position :
                      CheckFloatingRoundErrors(<<node.sites[i].position>>)[1][j] = NaN)

\* C14: chemical_formula_hill() is None when the node has partial occupancy
\* and some aggregated weight is not an integer; in every other case, a
\* vacancy with integral aggregated weights included, it is the formula
\* get_formula(mode="hill") returns.
C14_HillFormula ==
    called = "chemical_formula_hill" =>
        /\ ret.kind = "value"
        /\ LET occupation == GetSymbolWeights(node)
               fractional == \E sym \in DOMAIN occupation : ~IsInteger(occupation[sym])
           IN  ret.val = IF (HasVacancies(node) \/ fractional) /\ fractional
                         THEN None
                         ELSE GetFormula(node, "hill")

\* C15: store_attributes(), the node being there, stores the previously stored
\* payload updated with new_attributes: each new key with its new value, each
\* old key that is not a new one with its old value, no other key; and the
\* parser then holds no node.
C15_StoreMerges ==
    [][(found = 1 /\ called' = "store_attributes") =>
         /\ ret'.kind = "value"
         /\ extras'.set
         /\ DOMAIN extras'.optimade = DOMAIN new_attributes \cup DOMAIN extras.optimade
         /\ \A k \in DOMAIN new_attributes : extras'.optimade[k] = new_attributes[k]
         /\ \A k \in DOMAIN extras.optimade \ DOMAIN new_attributes :
               extras'.optimade[k] = extras.optimade[k]
         /\ ~loaded']_vars

\* C16: when the query for the parser's uuid does not find exactly one node,
\* store_attributes() raises AiidaEntityNotFound and stores nothing.
C16_StoreNotFound ==
    [][(found # 1 /\ called' = "store_attributes") =>
         /\ ret'.kind = "raise"
         /\ ret'.err = "AiidaEntityNotFound"
         /\ extras' = extras]_vars

\* The orders of the node's elements in which the rounded aggregated weights
\* (the proportion numbers) only fall, or only rise, from left to right.
OrdersByProportion ==
    LET w == GetSymbolWeights(node)
        n == Len(ElementsOfNode)
    IN  { o \in [1 .. n -> Range(ElementsOfNode)] :
            /\ \A i, j \in 1 .. n : i # j => o[i] # o[j]
            /\ \/ \A i, j \in 1 .. n : i < j => Round(w[o[i]]) >= Round(w[o[j]])
               \/ \A i, j \in 1 .. n : i < j => Round(w[o[i]]) <= Round(w[o[j]]) }

\* C18: chemical_formula_anonymous() first orders the elements by proportion
\* number and then gives them, left to right, the labels A, B, C, ...: the
\* label A goes by proportion, not by the alphabetical place of the symbol.
C18_AnonymousByProportion ==
    called = "chemical_formula_anonymous" =>
        /\ ret.kind = "value"
        /\ \E o \in OrdersByProportion :
              ret.val \in FormulasOf(o, [i \in DOMAIN o |-> AnonymousSymbol(i - 1)], {1})

\* C21: check_floating_round_errors returns a list of lists of the shape of
\* its argument, each entry 0 where the absolute value of the argument's entry
\* is below 1e-8 and the argument's entry anywhere else: an entry of absolute
\* value 1e-8 or more, positive or negative, comes back as it went in.
C21_SnapsNearZeroOnly ==
    round_pc = "returned" =>
        /\ DOMAIN round_res = DOMAIN round_arg
        /\ \A i \in DOMAIN round_arg :
              /\ DOMAIN round_res[i] = DOMAIN round_arg[i]
              /\ \A j \in DOMAIN round_arg[i] :
                    LET x == round_arg[i][j]
                        magnitude == IF RLt(x, Zero) THEN RSub(Zero, x) ELSE x
                    IN  round_res[i][j] =
                          IF RLt(magnitude, might_as_well_be_zero) THEN Zero ELSE x

\* The errors the parser's methods raise on purpose.
DocumentedErrors ==
    {"AiidaEntityNotFound", "DeductionError", "OptimadeIntegrityError", "ValueError"}

\* C24: reading self._node terminates and gives the node that has the
\* parser's uuid, or raises AiidaEntityNotFound when the query does not find
\* exactly one; so a method that reads the node (get_symbol_weights, and each
\* derivation) returns a value or raises one of the documented errors.
C24_NodeReadTerminates ==
    /\ called = "get_symbol_weights" =>
          IF found = 1
          THEN ret.kind = "value" /\ ret.val = GetSymbolWeights(node)
          ELSE ret.kind = "raise" /\ ret.err = "AiidaEntityNotFound"
    /\ called # "none" => (ret.kind = "value" \/ ret.err \in DocumentedErrors)

\* The methods that derive one OPTIMADE field each and cache it.
Derivations ==
    {"elements", "nelements", "elements_ratios", "chemical_formula_reduced",
     "chemical_formula_hill", "chemical_formula_anonymous", "lattice_vectors",
     "cartesian_site_positions", "nsites", "species_at_sites", "species",
     "structure_features"}

\* C22: a derivation call that returns a value leaves it in new_attributes
\* under the attribute's name; a call for an attribute that is cached returns
\* the cached value and leaves the cache as it is; no derivation call changes
\* or removes an entry of the cache.
C22_Memoized ==
    [][called' \in Derivations =>
         /\ \A a \in DOMAIN new_attributes :
               /\ a \in DOMAIN new_attributes'
               /\ new_attributes'[a] = new_attributes[a]
         /\ Cached(new_attributes, called') =>
               /\ ret'.kind = "value"
               /\ ret'.val = new_attributes[called']
               /\ new_attributes' = new_attributes
         /\ ret'.kind = "value" =>
               /\ Cached(new_attributes', called')
               /\ new_attributes'[called'] = ret'.val]_vars

\* C23: among the cached attributes, species_at_sites, cartesian_site_positions
\* and nsites agree on the number of sites, and every species has as many
\* concentrations as chemical symbols, the concentrations of a species with a
\* vacancy summing to 1.
C23_LengthsAgree ==
    /\ (Cached(new_attributes, "nsites") /\ Cached(new_attributes, "species_at_sites")) =>
          Len(new_attributes["species_at_sites"]) = new_attributes["nsites"]
    /\ (Cached(new_attributes, "nsites") /\ Cached(new_attributes, "cartesian_site_positions")) =>
          Len(new_attributes["cartesian_site_positions"]) = new_attributes["nsites"]
    /\ (Cached(new_attributes, "species_at_sites")
          /\ Cached(new_attributes, "cartesian_site_positions")) =>
          Len(new_attributes["species_at_sites"])
            = Len(new_attributes["cartesian_site_positions"])
    /\ Cached(new_attributes, "species") =>
          \A i \in DOMAIN new_attributes["species"] :
             LET sp == new_attributes["species"][i]
             IN  /\ Len(sp.chemical_symbols) = Len(sp.concentration)
                 /\ "vacancy" \in Range(sp.chemical_symbols) =>
                       RSum(sp.concentration) = One

\* C25: the symbol computed for an index below 702 is the symbol of no other
\* index below 702, so the labels of one record are pairwise distinct.
C25_LabelsDistinct ==
    label_sym # "" =>
        \A j \in 0 .. MaxElements - 1 :
            j # label_i => AnonymousSymbol(j) # label_sym

\* The last supported index has received its two-letter label.
C25_Witness == label_i = MaxElements - 1 /\ label_sym = "Zz"

(***************************************************************************)
(* Everything together: a behaviour is one export run, or one parser and   *)
(* its calls, or one anonymous-symbol computation.                         *)
(***************************************************************************)
Init == InitExport \/ InitParser \/ InitLabel \/ InitRound

Next == NextExport \/ NextParser \/ NextLabel \/ NextRound

Spec == Init /\ [][Next]_vars

====
